---- MODULE Spec2Model ----
(***************************************************************************)
(* Peg solitaire (src/main.py): the Solitaire class (board construction,   *)
(* move enumeration, move application, outcome) and the main() game loop.  *)
(*                                                                         *)
(* Cells keep the source's encoding: " " (Empty, corner cut-out), "0"      *)
(* (Hole) and "1" (Peg).  Rows and columns are zero-based, as in the       *)
(* source; a board is a function row -> (col -> cell) over 0..size-1.      *)
(* List indexing follows Python: a negative index i in -len..-1 reads      *)
(* element len+i, any other index outside 0..len-1 raises IndexError.      *)
(***************************************************************************)
EXTENDS Integers, Sequences, FiniteSets, TLC

VARIABLES pc, size, board, count, use_random_mode, moves, selected_move,
          call, result

vars == <<pc, size, board, count, use_random_mode, moves, selected_move,
          call, result>>

(***************************************************************************)
(* Bounds of the model.                                                    *)
(***************************************************************************)
\* largest number typed at the size prompt
MaxSizeInput == 10
\* the game loop is explored up to this many accepted moves
MaxMoves == 5
\* library-level specification: largest board side, and number of cells of
\* a base board that are overwritten with any value
MaxApiSize == 3
MaxEdits == 0

(***************************************************************************)
(* Program constants.                                                      *)
(***************************************************************************)
DefaultSize == 7
CornerSize == 2
ALPHABET == <<"A", "B", "C", "D", "E", "F", "G">>

\* MOVE enum values, in declaration order (the key order of DIRECTIONS)
MOVE == <<"right", "left", "up", "down">>

\* variant: the jumped-over offset of "down" points the wrong way
DIRECTIONS_down_wrong ==
    [d \in {"right", "left", "up", "down"} |->
        CASE d = "right" -> <<0, 2, 0, 1>>
          [] d = "left"  -> <<0, -2, 0, -1>>
          [] d = "up"    -> <<-2, 0, -1, 0>>
          [] d = "down"  -> <<2, 0, -1, 0>>]

\* variant: the jumped-over offset of "up" lies beside the path
DIRECTIONS_up_aside ==
    [d \in {"right", "left", "up", "down"} |->
        CASE d = "right" -> <<0, 2, 0, 1>>
          [] d = "left"  -> <<0, -2, 0, -1>>
          [] d = "up"    -> <<-2, 0, 0, -1>>
          [] d = "down"  -> <<2, 0, 1, 0>>]

DIRECTIONS ==
    [d \in {"right", "left", "up", "down"} |->
        CASE d = "right" -> <<0, 2, 0, 1>>
          [] d = "left"  -> <<0, -2, 0, -1>>
          [] d = "up"    -> <<-2, 0, -1, 0>>
          [] d = "down"  -> <<2, 0, 1, 0>>]

NoMove == <<>>
NoCall == [op |-> "none", arg |-> NoMove, raised |-> "None"]
NoResult == [outcome |-> "none", moves_made |-> 0, remaining_pegs |-> 0]

(***************************************************************************)
(* Python list indexing.                                                   *)
(***************************************************************************)
PyIndex(i, n) == IF i < 0 THEN i + n ELSE i

InRange(i, n) == 0 <= PyIndex(i, n) /\ PyIndex(i, n) < n

\* self.board[r][c] as an expression
GetCell(b, n, r, c) ==
    IF InRange(r, n) /\ InRange(c, n)
    THEN b[PyIndex(r, n)][PyIndex(c, n)]
    ELSE "IndexError"

\* self.board[r][c] = v
SetCell(b, n, r, c, v) ==
    [b EXCEPT ![PyIndex(r, n)][PyIndex(c, n)] = v]

(***************************************************************************)
(* Solitaire._setup_board                                                  *)
(***************************************************************************)
\* variant: the far corner blocks are one cell too small
is_corner_strict(n, row, col) ==
    LET rows_in_corner == row < CornerSize \/ row > n - CornerSize
        cols_in_corner == col < CornerSize \/ col > n - CornerSize
    IN  rows_in_corner /\ cols_in_corner

is_corner(n, row, col) ==
    LET rows_in_corner == row < CornerSize \/ row >= n - CornerSize
        cols_in_corner == col < CornerSize \/ col >= n - CornerSize
    IN  rows_in_corner /\ cols_in_corner

setup_board(n) ==
    LET filled == [row \in 0..(n - 1) |->
                     [col \in 0..(n - 1) |->
                        IF is_corner(n, row, col) THEN " " ELSE "1"]]
        center == n \div 2
    IN  SetCell(filled, n, center, center, "0")

(***************************************************************************)
(* Solitaire.get_valid_moves                                               *)
(***************************************************************************)
\* variant: no bounds test on the landing cell
is_valid_move_no_bounds(b, n, row, col, direction) ==
    /\ direction \in DOMAIN DIRECTIONS
    /\ LET row_moved == row + DIRECTIONS[direction][1]
           col_moved == col + DIRECTIONS[direction][2]
           removed_row == row + DIRECTIONS[direction][3]
           removed_col == col + DIRECTIONS[direction][4]
       IN  /\ GetCell(b, n, row, col) = "1"
           /\ GetCell(b, n, row_moved, col_moved) = "0"
           /\ GetCell(b, n, removed_row, removed_col) = "1"

\* variant: the jumped-over cell is not tested
is_valid_move_no_jumped(b, n, row, col, direction) ==
    /\ direction \in DOMAIN DIRECTIONS
    /\ LET row_moved == row + DIRECTIONS[direction][1]
           col_moved == col + DIRECTIONS[direction][2]
       IN  /\ 0 <= row_moved /\ row_moved < n
           /\ 0 <= col_moved /\ col_moved < n
           /\ GetCell(b, n, row, col) = "1"
           /\ GetCell(b, n, row_moved, col_moved) = "0"

\* variant: the landing cell is not tested
is_valid_move_no_landing(b, n, row, col, direction) ==
    /\ direction \in DOMAIN DIRECTIONS
    /\ LET row_moved == row + DIRECTIONS[direction][1]
           col_moved == col + DIRECTIONS[direction][2]
           removed_row == row + DIRECTIONS[direction][3]
           removed_col == col + DIRECTIONS[direction][4]
       IN  /\ 0 <= row_moved /\ row_moved < n
           /\ 0 <= col_moved /\ col_moved < n
           /\ GetCell(b, n, row, col) = "1"
           /\ GetCell(b, n, removed_row, removed_col) = "1"

is_valid_move(b, n, row, col, direction) ==
    /\ direction \in DOMAIN DIRECTIONS
    /\ LET row_moved == row + DIRECTIONS[direction][1]
           col_moved == col + DIRECTIONS[direction][2]
           removed_row == row + DIRECTIONS[direction][3]
           removed_col == col + DIRECTIONS[direction][4]
       IN  /\ 0 <= row_moved /\ row_moved < n
           /\ 0 <= col_moved /\ col_moved < n
           /\ GetCell(b, n, row, col) = "1"
           /\ GetCell(b, n, row_moved, col_moved) = "0"
           /\ GetCell(b, n, removed_row, removed_col) = "1"

\* product(range(size), range(size), DIRECTIONS.keys()), as a list
all_options(n) ==
    [k \in 1..(n * n * Len(MOVE)) |->
        <<(k - 1) \div (n * Len(MOVE)),
          ((k - 1) \div Len(MOVE)) % n,
          MOVE[((k - 1) % Len(MOVE)) + 1]>>]

get_valid_moves(b, n) ==
    LET keep(option) == is_valid_move(b, n, option[1], option[2], option[3])
    IN  SelectSeq(all_options(n), keep)

\* move in self.get_valid_moves()
InList(x, s) == \E i \in 1..Len(s) : s[i] = x

(***************************************************************************)
(* Solitaire.apply_move: the three writes made once the move is accepted   *)
(***************************************************************************)
\* variant: the jumped-over peg is left in place
apply_writes_keep_jumped(b, n, move) ==
    LET row == move[1]
        col == move[2]
        off == DIRECTIONS[move[3]]
        b1 == SetCell(b, n, row, col, "0")
    IN  SetCell(b1, n, row + off[1], col + off[2], "1")

\* variant: the values written to the jumped-over and landing cells are
\* exchanged
apply_writes_swapped(b, n, move) ==
    LET row == move[1]
        col == move[2]
        off == DIRECTIONS[move[3]]
        b1 == SetCell(b, n, row, col, "0")
        b2 == SetCell(b1, n, row + off[3], col + off[4], "1")
    IN  SetCell(b2, n, row + off[1], col + off[2], "0")

apply_writes(b, n, move) ==
    LET row == move[1]
        col == move[2]
        off == DIRECTIONS[move[3]]
        b1 == SetCell(b, n, row, col, "0")
        b2 == SetCell(b1, n, row + off[3], col + off[4], "0")
    IN  SetCell(b2, n, row + off[1], col + off[2], "1")

(***************************************************************************)
(* Solitaire.count_pegs, Solitaire.validate_win                            *)
(***************************************************************************)
RECURSIVE SumTo(_, _)
SumTo(f, k) == IF k < 0 THEN 0 ELSE f[k] + SumTo(f, k - 1)

CountIn(b, n, v) ==
    LET rowcount == [r \in 0..(n - 1) |->
                       Cardinality({c \in 0..(n - 1) : b[r][c] = v})]
    IN  SumTo(rowcount, n - 1)

count_pegs(b, n) == CountIn(b, n, "1")

\* variant: only the center cell is looked at
validate_win_center_only(b, n) ==
    GetCell(b, n, n \div 2, n \div 2) = "1"

\* variant: the winning cell is looked for one column right of the center
validate_win_off_center(b, n) ==
    /\ count_pegs(b, n) = 1
    /\ GetCell(b, n, n \div 2, (n \div 2) + 1) = "1"

validate_win(b, n) ==
    /\ count_pegs(b, n) = 1
    /\ GetCell(b, n, n \div 2, n \div 2) = "1"

\* variant: the extra counter() call of end_game is not subtracted
end_game_result_no_minus(b, n, cnt) ==
    [outcome |-> IF validate_win(b, n) THEN "VICTORY" ELSE "DEFEAT",
     moves_made |-> cnt + 1,
     remaining_pegs |-> count_pegs(b, n)]

end_game_result(b, n, cnt) ==
    [outcome |-> IF validate_win(b, n) THEN "VICTORY" ELSE "DEFEAT",
     moves_made |-> (cnt + 1) - 1,
     remaining_pegs |-> count_pegs(b, n)]

(***************************************************************************)
(* Solitaire.apply_move as a step on the game object: rejected with        *)
(* ValueError before any write, or the three writes.                       *)
(***************************************************************************)
\* variant: the origin is cleared before the move is validated
apply_move_write_first(move) ==
    IF ~InList(move, get_valid_moves(board, size))
    THEN /\ board' = IF InRange(move[1], size) /\ InRange(move[2], size)
                     THEN SetCell(board, size, move[1], move[2], "0")
                     ELSE board
         /\ call' = [op |-> "apply_move", arg |-> move, raised |-> "ValueError"]
    ELSE /\ board' = apply_writes(board, size, move)
         /\ call' = [op |-> "apply_move", arg |-> move, raised |-> "None"]

apply_move(move) ==
    IF ~InList(move, get_valid_moves(board, size))
    THEN /\ board' = board
         /\ call' = [op |-> "apply_move", arg |-> move, raised |-> "ValueError"]
    ELSE /\ board' = apply_writes(board, size, move)
         /\ call' = [op |-> "apply_move", arg |-> move, raised |-> "None"]

\* Solitaire.end_game: counter() is called once more, the summary is built
end_game ==
    /\ result' = end_game_result(board, size, count)
    /\ count' = count + 1
    /\ call' = [op |-> "end_game", arg |-> NoMove, raised |-> "None"]

(***************************************************************************)
(* main(): the console driver.                                             *)
(***************************************************************************)
NoBoard == [row \in {} |-> " "]

\* what can be typed at the size prompt: nothing, a digit string, other text
SizeInputs ==
    {[kind |-> "empty", n |-> 0], [kind |-> "other", n |-> 0]}
        \cup {[kind |-> "digits", n |-> k] : k \in 0..MaxSizeInput}

Init ==
    /\ pc = "ask_custom_size"
    /\ size = 0
    /\ board = NoBoard
    /\ count = 0
    /\ use_random_mode = FALSE
    /\ moves = <<>>
    /\ selected_move = NoMove
    /\ call = NoCall
    /\ result = NoResult

ask_custom_size ==
    /\ pc = "ask_custom_size"
    /\ \E input \in SizeInputs :
         IF input.kind = "empty"
         THEN size' = DefaultSize /\ pc' = "ask_random_mode"
         ELSE IF input.kind = "digits" /\ input.n % 2 = 1
              THEN size' = input.n /\ pc' = "ask_random_mode"
              ELSE size' = size /\ pc' = pc
    /\ UNCHANGED <<board, count, use_random_mode, moves, selected_move,
                   call, result>>

ask_random_mode ==
    /\ pc = "ask_random_mode"
    /\ \E choice \in {"y", "n", "other"} :
         IF choice \in {"y", "n"}
         THEN use_random_mode' = (choice = "y") /\ pc' = "construct"
         ELSE use_random_mode' = use_random_mode /\ pc' = pc
    /\ UNCHANGED <<size, board, count, moves, selected_move, call, result>>

\* game = Solitaire(size=size)
construct ==
    /\ pc = "construct"
    /\ board' = setup_board(size)
    /\ count' = 0
    /\ call' = [op |-> "__init__", arg |-> NoMove, raised |-> "None"]
    /\ pc' = "loop"
    /\ UNCHANGED <<size, use_random_mode, moves, selected_move, result>>

\* show_board needs ALPHABET[row] for every row of the board
show_board_ok(n) == \A row \in 0..(n - 1) : InRange(row, Len(ALPHABET))

\* variant: the move list is computed once and kept for the later turns
loop_head_cached ==
    /\ pc = "loop"
    /\ IF ~show_board_ok(size)
       THEN /\ pc' = "crashed"
            /\ call' = [op |-> "show_board", arg |-> NoMove,
                        raised |-> "IndexError"]
            /\ UNCHANGED moves
       ELSE /\ moves' = IF moves = <<>>
                        THEN get_valid_moves(board, size)
                        ELSE moves
            /\ call' = [op |-> "get_valid_moves", arg |-> NoMove,
                        raised |-> "None"]
            /\ pc' = IF moves' = <<>> THEN "end_game" ELSE "select"
    /\ UNCHANGED <<size, board, count, use_random_mode, selected_move,
                   result>>

\* variant: the loop also ends when a single move is left
loop_head_early ==
    /\ pc = "loop"
    /\ IF ~show_board_ok(size)
       THEN /\ pc' = "crashed"
            /\ call' = [op |-> "show_board", arg |-> NoMove,
                        raised |-> "IndexError"]
            /\ UNCHANGED moves
       ELSE /\ moves' = get_valid_moves(board, size)
            /\ call' = [op |-> "get_valid_moves", arg |-> NoMove,
                        raised |-> "None"]
            /\ pc' = IF Len(moves') <= 1 THEN "end_game" ELSE "select"
    /\ UNCHANGED <<size, board, count, use_random_mode, selected_move,
                   result>>

\* head of the while loop: show_board, get_valid_moves, "if not moves"
loop_head ==
    /\ pc = "loop"
    /\ IF ~show_board_ok(size)
       THEN /\ pc' = "crashed"
            /\ call' = [op |-> "show_board", arg |-> NoMove,
                        raised |-> "IndexError"]
            /\ UNCHANGED moves
       ELSE /\ moves' = get_valid_moves(board, size)
            /\ call' = [op |-> "get_valid_moves", arg |-> NoMove,
                        raised |-> "None"]
            /\ pc' = IF moves' = <<>> THEN "end_game" ELSE "select"
    /\ UNCHANGED <<size, board, count, use_random_mode, selected_move,
                   result>>

\* what can be typed at the move prompt
SelectionInputs(number_of_moves) ==
    {[kind |-> "empty", n |-> 0], [kind |-> "other", n |-> 0]}
        \cup {[kind |-> "digits", n |-> k] : k \in 0..(number_of_moves + 1)}

\* Solitaire.get_selection: random.choice(moves), or a typed 1-based index
get_selection ==
    /\ pc = "select"
    /\ IF use_random_mode
       THEN \E i \in 1..Len(moves) :
              selected_move' = moves[i] /\ pc' = "apply"
       ELSE \E input \in SelectionInputs(Len(moves)) :
              IF input.kind = "digits" /\ 1 <= input.n /\ input.n <= Len(moves)
              THEN selected_move' = moves[(input.n - 1) + 1] /\ pc' = "apply"
              ELSE selected_move' = selected_move /\ pc' = pc
    /\ UNCHANGED <<size, board, count, use_random_mode, moves, call, result>>

\* try: apply_move(selected_move); counter()  except ValueError: print
apply_selected ==
    /\ pc = "apply"
    /\ apply_move(selected_move)
    /\ count' = IF call'.raised = "None" THEN count + 1 ELSE count
    /\ pc' = "loop"
    /\ UNCHANGED <<size, use_random_mode, moves, selected_move, result>>

\* print(game.end_game()) after the loop
report ==
    /\ pc = "end_game"
    /\ end_game
    /\ pc' = "done"
    /\ UNCHANGED <<size, board, use_random_mode, moves, selected_move>>

\* get_selection while the game is within the explored number of moves
bounded_selection ==
    /\ count < MaxMoves
    /\ get_selection

Next ==
    \/ ask_custom_size
    \/ ask_random_mode
    \/ construct
    \/ loop_head
    \/ bounded_selection
    \/ apply_selected
    \/ report

Spec == Init /\ [][Next]_vars

(***************************************************************************)
(* A game played from a script: on the default board the moves given to   *)
(* get_selection (typed, or drawn by random.choice) are those of Solution. *)
(***************************************************************************)
\* the moves picked, one per turn, on the board of DefaultSize
Solution ==
    <<
      <<1, 3, "down">>, <<2, 1, "right">>, <<0, 2, "down">>,
      <<0, 4, "left">>, <<2, 3, "left">>, <<2, 0, "right">>,
      <<2, 4, "up">>, <<2, 6, "left">>, <<3, 2, "up">>,
      <<0, 2, "down">>, <<3, 0, "right">>, <<3, 2, "up">>,
      <<3, 4, "left">>, <<3, 6, "left">>, <<3, 4, "up">>,
      <<0, 4, "down">>, <<4, 2, "up">>, <<1, 2, "down">>,
      <<4, 0, "right">>, <<4, 3, "left">>, <<5, 4, "up">>,
      <<4, 6, "left">>, <<6, 2, "up">>, <<3, 2, "down">>,
      <<6, 4, "left">>, <<6, 2, "up">>, <<4, 1, "right">>,
      <<4, 3, "right">>, <<2, 4, "down">>, <<4, 5, "left">>,
      <<5, 3, "up">>
    >>

\* get_selection returning the next move of the script on the default board
scripted_selection ==
    /\ get_selection
    /\ IF size = DefaultSize
       THEN /\ count < Len(Solution)
            /\ (pc' = "apply") => selected_move' = Solution[count + 1]
       ELSE count < MaxMoves

NextScript ==
    \/ ask_custom_size
    \/ ask_random_mode
    \/ construct
    \/ loop_head
    \/ scripted_selection
    \/ apply_selected
    \/ report

SpecScript == Init /\ [][NextScript]_vars

(***************************************************************************)
(* The Solitaire class used as a library: a game object holding any board  *)
(* of a bounded family, on which one of apply_move (with any move tuple),  *)
(* get_valid_moves or end_game is called.                                  *)
(***************************************************************************)
CellValues == <<" ", "0", "1">>

\* a board whose diagonals repeat the three cell values a, b, c: every row
\* and every column reads a, b, c cyclically
striped_board(n, a, b, c) ==
    [row \in 0..(n - 1) |->
       [col \in 0..(n - 1) |-> <<a, b, c>>[((row + col) % Len(CellValues)) + 1]]]

\* the boards obtained from b by overwriting at most k cells, taken in
\* increasing row-major position from position lo on
RECURSIVE EditsFrom(_, _, _, _)
EditsFrom(b, n, k, lo) ==
    IF k = 0 \/ lo >= n * n
    THEN {b}
    ELSE {b} \cup UNION {EditsFrom(SetCell(b, n, p \div n, p % n,
                                           CellValues[v]), n, k - 1, p + 1) :
                           p \in lo..(n * n - 1), v \in DOMAIN CellValues}

\* a board with exactly one peg, on a background of holes or empty cells
one_peg_board(n, row, col, background) ==
    SetCell([r \in 0..(n - 1) |-> [c \in 0..(n - 1) |-> background]],
            n, row, col, "1")

BaseBoards(n) ==
    {setup_board(n)}
        \cup {one_peg_board(n, row, col, background) :
                row \in 0..(n - 1), col \in 0..(n - 1),
                background \in {" ", "0"}}
        \cup {striped_board(n, CellValues[a], CellValues[b], CellValues[c]) :
                a \in DOMAIN CellValues, b \in DOMAIN CellValues,
                c \in DOMAIN CellValues}

ApiBoards(n) == UNION {EditsFrom(b, n, MaxEdits, 0) : b \in BaseBoards(n)}

\* move tuples a caller may pass: rows and columns one step outside the
\* board included, and a direction that is no key of DIRECTIONS
ApiMoves(n) ==
    {<<row, col, direction>> :
        row \in (-1)..n, col \in (-1)..n,
        direction \in {"right", "left", "up", "down", "diagonal"}}

InitApi ==
    /\ pc = "api"
    /\ size \in 1..MaxApiSize
    /\ board \in ApiBoards(size)
    /\ count = 0
    /\ use_random_mode = FALSE
    /\ moves = <<>>
    /\ selected_move = NoMove
    /\ call = NoCall
    /\ result = NoResult

api_get_valid_moves ==
    /\ pc = "api"
    /\ moves' = get_valid_moves(board, size)
    /\ call' = [op |-> "get_valid_moves", arg |-> NoMove, raised |-> "None"]
    /\ pc' = "returned"
    /\ UNCHANGED <<size, board, count, use_random_mode, selected_move, result>>

api_apply_move ==
    /\ pc = "api"
    /\ \E move \in ApiMoves(size) : apply_move(move)
    /\ pc' = "returned"
    /\ UNCHANGED <<size, count, use_random_mode, moves, selected_move, result>>

api_end_game ==
    /\ pc = "api"
    /\ end_game
    /\ pc' = "returned"
    /\ UNCHANGED <<size, board, use_random_mode, moves, selected_move>>

NextApi ==
    \/ api_get_valid_moves
    \/ api_apply_move
    \/ api_end_game

SpecApi == InitApi /\ [][NextApi]_vars

(***************************************************************************)
(* The cells that get_valid_moves and apply_move index, as the index pairs *)
(* written in the source (before Python resolves a negative index).  The   *)
(* chain of "and" in is_valid_move stops at its first false operand.       *)
(***************************************************************************)
\* variant: no bounds test before the reads
move_reads_no_bounds(b, n, row, col, direction) ==
    IF direction \notin DOMAIN DIRECTIONS
    THEN {}
    ELSE LET row_moved == row + DIRECTIONS[direction][1]
             col_moved == col + DIRECTIONS[direction][2]
             removed_row == row + DIRECTIONS[direction][3]
             removed_col == col + DIRECTIONS[direction][4]
         IN  {<<row, col>>}
               \cup (IF GetCell(b, n, row, col) # "1"
                     THEN {}
                     ELSE {<<row_moved, col_moved>>}
                            \cup (IF GetCell(b, n, row_moved, col_moved) # "0"
                                  THEN {}
                                  ELSE {<<removed_row, removed_col>>}))

move_reads(b, n, row, col, direction) ==
    IF direction \notin DOMAIN DIRECTIONS
    THEN {}
    ELSE LET row_moved == row + DIRECTIONS[direction][1]
             col_moved == col + DIRECTIONS[direction][2]
             removed_row == row + DIRECTIONS[direction][3]
             removed_col == col + DIRECTIONS[direction][4]
         IN  IF ~(/\ 0 <= row_moved /\ row_moved < n
                  /\ 0 <= col_moved /\ col_moved < n)
             THEN {}
             ELSE {<<row, col>>}
                    \cup (IF GetCell(b, n, row, col) # "1"
                          THEN {}
                          ELSE {<<row_moved, col_moved>>}
                                 \cup (IF GetCell(b, n, row_moved, col_moved)
                                            # "0"
                                       THEN {}
                                       ELSE {<<removed_row, removed_col>>}))

\* every read of one get_valid_moves() call
enumeration_reads(b, n) ==
    LET options == all_options(n)
    IN  UNION {move_reads(b, n, options[k][1], options[k][2], options[k][3]) :
                 k \in DOMAIN options}

\* the three cells apply_move assigns once the move is accepted
move_writes(move) ==
    {<<move[1], move[2]>>,
     <<move[1] + DIRECTIONS[move[3]][3], move[2] + DIRECTIONS[move[3]][4]>>,
     <<move[1] + DIRECTIONS[move[3]][1], move[2] + DIRECTIONS[move[3]][2]>>}

\* every read and write of one apply_move(move) call
apply_move_accesses(b, n, move) ==
    enumeration_reads(b, n)
        \cup (IF InList(move, get_valid_moves(b, n))
              THEN move_writes(move)
              ELSE {})

(***************************************************************************)
(* Properties.                                                             *)
(***************************************************************************)
Cells(n) == (0..(n - 1)) \X (0..(n - 1))

CellsHolding(b, n, v) == {rc \in Cells(n) : b[rc[1]][rc[2]] = v}

Center(n) == <<n \div 2, n \div 2>>

\* the cell a move starts from, jumps over and lands on
Origin(move) == <<move[1], move[2]>>

Jumped(move) ==
    CASE move[3] = "right" -> <<move[1], move[2] + 1>>
      [] move[3] = "left"  -> <<move[1], move[2] - 1>>
      [] move[3] = "up"    -> <<move[1] - 1, move[2]>>
      [] move[3] = "down"  -> <<move[1] + 1, move[2]>>

Landing(move) ==
    CASE move[3] = "right" -> <<move[1], move[2] + 2>>
      [] move[3] = "left"  -> <<move[1], move[2] - 2>>
      [] move[3] = "up"    -> <<move[1] - 2, move[2]>>
      [] move[3] = "down"  -> <<move[1] + 2, move[2]>>

\* C1: a move that is not in get_valid_moves() of the board at the time of
\* the call makes apply_move raise ValueError and leaves every cell of the
\* board as it was.
C1_InvalidMoveRejected ==
    [][(/\ pc = "api"
        /\ call'.op = "apply_move"
        /\ ~InList(call'.arg, get_valid_moves(board, size)))
       => (call'.raised = "ValueError" /\ board' = board)]_vars

\* an in-range move from a peg was rejected
C1_Witness ==
    /\ pc = "returned"
    /\ call.op = "apply_move"
    /\ call.raised = "ValueError"
    /\ Origin(call.arg) \in CellsHolding(board, size, "1")
    /\ call.arg[3] \in DOMAIN DIRECTIONS

\* C2: on every board reached in a game, applying a move of
\* get_valid_moves() lowers count_pegs() by exactly 1 and keeps the number
\* of Peg plus Hole cells.
C2_PegCountDropsByOne ==
    [][(/\ pc = "apply"
        /\ InList(selected_move, get_valid_moves(board, size)))
       => (/\ count_pegs(board', size) = count_pegs(board, size) - 1
           /\ Cardinality(CellsHolding(board', size, "1"))
                + Cardinality(CellsHolding(board', size, "0"))
              = Cardinality(CellsHolding(board, size, "1"))
                + Cardinality(CellsHolding(board, size, "0")))]_vars

\* a second move of a game has been applied
C2_Witness ==
    /\ pc = "loop"
    /\ call.op = "apply_move"
    /\ call.raised = "None"
    /\ count = 2
    /\ count_pegs(board, size) = count_pegs(setup_board(size), size) - 2

\* C3: a successful apply_move changes exactly three cells (origin to
\* Hole, jumped-over cell to Hole, landing cell to Peg); every other cell
\* and the board size stay as they were.
C3_ThreeCellsChange ==
    [][(/\ pc = "api"
        /\ call'.op = "apply_move"
        /\ call'.raised = "None")
       => (/\ size' = size
           /\ DOMAIN board' = DOMAIN board
           /\ \A rc \in Cells(size) :
                board'[rc[1]][rc[2]] =
                    IF rc = Origin(call'.arg) \/ rc = Jumped(call'.arg)
                    THEN "0"
                    ELSE IF rc = Landing(call'.arg)
                         THEN "1"
                         ELSE board[rc[1]][rc[2]])]_vars

\* a move was accepted on a board that also has cells the move leaves alone
C3_Witness ==
    /\ pc = "returned"
    /\ call.op = "apply_move"
    /\ call.raised = "None"
    /\ \E rc \in Cells(size) :
         /\ rc \notin {Origin(call.arg), Jumped(call.arg), Landing(call.arg)}
         /\ board[rc[1]][rc[2]] = "1"

\* legality of a move as the four conditions on the cells of the board
Legal(b, n, move) ==
    /\ move[3] \in {"right", "left", "up", "down"}
    /\ Origin(move) \in Cells(n)
    /\ Landing(move) \in Cells(n)
    /\ b[Origin(move)[1]][Origin(move)[2]] = "1"
    /\ b[Jumped(move)[1]][Jumped(move)[2]] = "1"
    /\ b[Landing(move)[1]][Landing(move)[2]] = "0"

DirectionRank(d) ==
    CASE d = "right" -> 0 [] d = "left" -> 1 [] d = "up" -> 2 [] d = "down" -> 3

\* position of a move in row-major cell order, Right, Left, Up, Down within
\* a cell
MoveRank(n, move) == (move[1] * n + move[2]) * 4 + DirectionRank(move[3])

\* C4: get_valid_moves() returns exactly the moves whose landing cell is in
\* bounds, whose origin and jumped-over cells are Peg and whose landing cell
\* is Hole, in row-major cell order and Right, Left, Up, Down within a
\* cell, without repetition, at most size*size*4 of them.
C4_ValidMovesExact ==
    (pc = "returned" /\ call.op = "get_valid_moves")
    => (/\ \A move \in ApiMoves(size) :
             InList(move, moves) <=> Legal(board, size, move)
        /\ \A i \in 1..Len(moves) :
             /\ moves[i] \in ApiMoves(size)
             /\ \A j \in (i + 1)..Len(moves) :
                  MoveRank(size, moves[i]) < MoveRank(size, moves[j])
        /\ Len(moves) <= size * size * 4)

\* an enumeration that returned several moves, two of them from one cell
C4_Witness ==
    /\ pc = "returned"
    /\ call.op = "get_valid_moves"
    /\ Len(moves) >= 3
    /\ \E i \in 1..(Len(moves) - 1) : Origin(moves[i]) = Origin(moves[i + 1])

\* the cells of the four 2x2 blocks in the corners of the board
CornerBlock(n) ==
    {rc \in Cells(n) : rc[1] \in {0, 1, n - 2, n - 1}
                         /\ rc[2] \in {0, 1, n - 2, n - 1}}

\* C5: for an odd size of at least 5 the constructed board has exactly one
\* Hole, at the center, the four 2x2 corner blocks Empty, and Peg in every
\* other cell: size*size - 16 - 1 pegs.
C5_InitialBoard ==
    (pc = "loop" /\ call.op = "__init__" /\ size % 2 = 1 /\ size >= 5)
    => (/\ CellsHolding(board, size, "0") = {Center(size)}
        /\ CellsHolding(board, size, " ") = CornerBlock(size)
        /\ Cardinality(CornerBlock(size)) = 16
        /\ CellsHolding(board, size, "1")
             = (Cells(size) \ CornerBlock(size)) \ {Center(size)}
        /\ count_pegs(board, size) = size * size - 16 - 1)

\* a board of a size other than the default has been constructed
C5_Witness ==
    /\ pc = "loop"
    /\ call.op = "__init__"
    /\ size % 2 = 1
    /\ size > DefaultSize
    /\ board[0][2] = "1"

\* C6: constructing a board with an even size or a size below 5 fails and
\* produces no board, so no game runs on a board of size 1, 3 or even size.
C6_BadSizeRejected ==
    (size % 2 = 0 \/ size < 5)
    => (board = NoBoard /\ pc \in {"ask_custom_size", "ask_random_mode",
                                   "construct"})

\* C7: the reported outcome is Victory exactly when one peg remains and it
\* is in the center cell, Defeat otherwise, and the reported number of
\* remaining pegs is the number of pegs on the board.
C7_OutcomeReported ==
    (pc = "returned" /\ call.op = "end_game")
    => (/\ result.outcome \in {"VICTORY", "DEFEAT"}
        /\ (result.outcome = "VICTORY"
              <=> CellsHolding(board, size, "1") = {Center(size)})
        /\ result.remaining_pegs = Cardinality(CellsHolding(board, size, "1"))
        /\ result.remaining_pegs = count_pegs(board, size))

\* Victory was reported on a board of side 3
C7_Witness ==
    /\ pc = "returned"
    /\ call.op = "end_game"
    /\ result.outcome = "VICTORY"
    /\ size = 3
    /\ result.remaining_pegs = 1

\* C8: on a board with exactly one Peg, whatever the other cells hold,
\* get_valid_moves() is empty.
C8_SinglePegTerminal ==
    (/\ pc = "returned"
     /\ call.op = "get_valid_moves"
     /\ Cardinality(CellsHolding(board, size, "1")) = 1)
    => moves = <<>>

\* the moves of a one-peg board with a hole two cells from the peg were
\* enumerated
C8_Witness ==
    /\ pc = "returned"
    /\ call.op = "get_valid_moves"
    /\ Cardinality(CellsHolding(board, size, "1")) = 1
    /\ \E rc \in CellsHolding(board, size, "1") :
         \E d \in DOMAIN DIRECTIONS :
            /\ Landing(<<rc[1], rc[2], d>>) \in CellsHolding(board, size, "0")

\* C9: on the initial 7x7 board get_valid_moves() returns exactly 4 moves,
\* one for each direction, each landing in the center hole.
C9_FourOpeningMoves ==
    (size = DefaultSize /\ count = 0 /\ pc \in {"select", "end_game"})
    => (/\ Len(moves) = 4
        /\ {moves[i][3] : i \in 1..Len(moves)}
             = {"right", "left", "up", "down"}
        /\ \A i \in 1..Len(moves) :
             /\ Landing(moves[i]) = <<3, 3>>
             /\ board[3][3] = "0")

\* the moves of the initial 7x7 board have been enumerated
C9_Witness ==
    /\ size = DefaultSize
    /\ count = 0
    /\ pc = "select"
    /\ board = setup_board(7)

\* C10: on the initial 7x7 board the move (1, 3, Down) is legal, and
\* applying it takes the peg count from 32 to 31, makes the center (3, 3) a
\* Peg and makes (1, 3) and (2, 3) Holes.
C10_FirstMoveDown ==
    /\ (size = DefaultSize /\ count = 0 /\ pc \in {"select", "apply"})
       => (/\ InList(<<1, 3, "down">>, moves)
           /\ InList(<<1, 3, "down">>, get_valid_moves(board, size))
           /\ board[3][3] = "0"
           /\ count_pegs(board, size) = 32)
    /\ (/\ size = DefaultSize
        /\ count = 1
        /\ pc = "loop"
        /\ call.arg = <<1, 3, "down">>)
       => (/\ call.op = "apply_move"
           /\ call.raised = "None"
           /\ count_pegs(board, size) = 31
           /\ board[3][3] = "1"
           /\ board[1][3] = "0"
           /\ board[2][3] = "0")

\* (1, 3, Down) has been applied as the first move of a 7x7 game
C10_Witness ==
    /\ size = DefaultSize
    /\ count = 1
    /\ pc = "loop"
    /\ call.op = "apply_move"
    /\ call.arg = <<1, 3, "down">>
    /\ call.raised = "None"

\* C11: in every state reached from a constructed board by apply_move
\* calls, every cell of the four 2x2 corner blocks is Empty and no other
\* cell is Empty, and no enumerated move starts from, jumps over or lands
\* on a corner cell.
C11_CornersStayEmpty ==
    (board # NoBoard)
    => (/\ CellsHolding(board, size, " ") = CornerBlock(size)
        /\ \A i \in 1..Len(get_valid_moves(board, size)) :
             LET move == get_valid_moves(board, size)[i]
             IN  {Origin(move), Jumped(move), Landing(move)}
                    \cap CornerBlock(size) = {})

\* C12: in the game loop a move taken from the list returned by
\* get_valid_moves() is accepted by the apply_move that follows on the same
\* board, in random mode and in index mode: the ValueError branch is never
\* taken.
C12_SelectedMoveAccepted ==
    /\ (pc = "apply") => /\ InList(selected_move, moves)
                         /\ InList(selected_move, get_valid_moves(board, size))
    /\ (call.op = "apply_move") => call.raised = "None"

\* a move chosen by typed index was applied in a later turn of a game
C12_Witness ==
    /\ pc = "loop"
    /\ ~use_random_mode
    /\ call.op = "apply_move"
    /\ call.raised = "None"
    /\ call.arg = selected_move
    /\ count >= 3

\* the states of the game loop: is_playing is True in the loop body, and
\* False from the turn that found no move on
InProgress == pc \in {"loop", "select", "apply"}

Terminal == pc \in {"end_game", "done"}

C14_AccessesInBounds ==
    [][/\ (pc = "api" /\ call'.op = "get_valid_moves")
          => enumeration_reads(board, size) \subseteq Cells(size)
       /\ (pc = "api" /\ call'.op = "apply_move" /\ call'.raised = "None")
          => apply_move_accesses(board, size, call'.arg)
                \subseteq Cells(size)]_vars

\* a move that lands on the first row or the first column was applied
C14_Witness ==
    /\ pc = "returned"
    /\ call.op = "apply_move"
    /\ call.raised = "None"
    /\ call.arg[3] \in {"up", "left"}
    /\ 0 \in {Landing(call.arg)[1], Landing(call.arg)[2]}
    /\ board[Landing(call.arg)[1]][Landing(call.arg)[2]] = "1"

\* C15: from the initial board of any valid size (odd, at least 5) the
\* game loop reaches Terminal whatever moves are selected, after at most
\* (initial peg count - 1) accepted moves.  As a property of every state:
\* the loop is either still running or Terminal (it never ends in another
\* way), and no more than initial peg count - 1 moves have been accepted.
C15_LoopReachesTerminal ==
    (board # NoBoard /\ size % 2 = 1 /\ size >= 5)
    => (/\ InProgress \/ Terminal
        /\ (IF pc = "done" THEN count - 1 ELSE count)
             <= count_pegs(setup_board(size), size) - 1
        /\ count_pegs(board, size) >= 1)

\* C16: the move counter goes up by one for an accepted apply_move and
\* stays for a rejected one, so the "Moves made" number of end_game is the
\* number of accepted moves, and "Moves made" plus "Remaining pegs" is the
\* initial peg count.
C16_MovesMadeReported ==
    [][/\ (pc = "apply")
          => (/\ (call'.raised = "None")
                   => (count' = count + 1
                       /\ count' = count_pegs(setup_board(size), size)
                                     - count_pegs(board', size))
              /\ (call'.raised # "None") => count' = count)
       /\ (pc = "end_game" /\ pc' = "done")
          => (/\ result'.moves_made = count
              /\ result'.moves_made
                   = Cardinality(CellsHolding(setup_board(size), size, "1"))
                       - Cardinality(CellsHolding(board, size, "1"))
              /\ result'.moves_made + result'.remaining_pegs
                   = count_pegs(setup_board(size), size))]_vars

\* the summary of a finished game of several moves
C16_Witness ==
    /\ pc = "done"
    /\ call.op = "end_game"
    /\ result.moves_made >= 3
    /\ result.remaining_pegs >= 1
    /\ count = result.moves_made + 1

\* C17: for every size the size prompt accepts, each row 0..size-1 that
\* show_board and show_moves render has a row letter, so the loop gets to
\* move selection and does not fail while drawing the board.
C17_RowLetters ==
    (board # NoBoard)
    => (/\ \A row \in 0..(size - 1) : row + 1 <= Len(ALPHABET)
        /\ call.raised # "IndexError"
        /\ pc # "crashed")

\* C19: in the direction table the jumped-over offset of each of the four
\* directions is half the landing offset, with the values right (0,2,0,1),
\* left (0,-2,0,-1), up (-2,0,-1,0), down (2,0,1,0); the cell an accepted
\* move empties besides its origin is the midpoint of origin and landing.
C19_JumpedIsMidpoint ==
    /\ DOMAIN DIRECTIONS = {MOVE[i] : i \in 1..Len(MOVE)}
    /\ \A d \in DOMAIN DIRECTIONS :
         /\ DIRECTIONS[d][1] = 2 * DIRECTIONS[d][3]
         /\ DIRECTIONS[d][2] = 2 * DIRECTIONS[d][4]
    /\ DIRECTIONS["right"] = <<0, 2, 0, 1>>
    /\ DIRECTIONS["left"] = <<0, -2, 0, -1>>
    /\ DIRECTIONS["up"] = <<-2, 0, -1, 0>>
    /\ DIRECTIONS["down"] = <<2, 0, 1, 0>>
    /\ (pc = "returned" /\ call.op = "apply_move" /\ call.raised = "None")
       => LET row == call.arg[1]
              col == call.arg[2]
              d == DIRECTIONS[call.arg[3]]
              emptied == {c \in CellsHolding(board, size, "0") :
                            /\ c # <<row, col>>
                            /\ c \in {<<row + DIRECTIONS[k][3],
                                        col + DIRECTIONS[k][4]>> :
                                          k \in DOMAIN DIRECTIONS}}
          IN  /\ <<row + d[3], col + d[4]>> \in emptied
              /\ 2 * (row + d[3]) = row + (row + d[1])
              /\ 2 * (col + d[4]) = col + (col + d[2])
              /\ board[row + d[1]][col + d[2]] = "1"
              /\ board[row][col] = "0"

\* an accepted jump upwards has emptied the cell midway to its landing cell
C19_Witness ==
    /\ pc = "returned"
    /\ call.op = "apply_move"
    /\ call.raised = "None"
    /\ call.arg[3] = "up"
    /\ board[call.arg[1] - 1][call.arg[2]] = "0"
    /\ board[call.arg[1] - 2][call.arg[2]] = "1"

\* C18: on the 7x7 board Victory is reachable: every move of Solution is
\* legal on the board it is played on, each removes one peg, the moves do
\* not run out before the board is terminal, and the terminal board holds
\* exactly one peg, in the center cell, which end_game reports as VICTORY.
C18_VictoryReachable ==
    (size = DefaultSize /\ board # NoBoard)
    => (/\ pc # "crashed"
        /\ (pc = "select")
           => (/\ count < Len(Solution)
               /\ InList(Solution[count + 1], moves)
               /\ moves = get_valid_moves(board, size))
        /\ (pc = "apply")
           => (/\ selected_move = Solution[count + 1]
               /\ is_valid_move(board, size, selected_move[1],
                                selected_move[2], selected_move[3]))
        /\ (pc \in {"loop", "select", "apply", "end_game"})
           => count_pegs(board, size)
                = count_pegs(setup_board(size), size) - count
        /\ (pc \in {"end_game", "done"})
           => (/\ get_valid_moves(board, size) = <<>>
               /\ CellsHolding(board, size, "1") = {Center(size)})
        /\ (pc = "end_game") => count = Len(Solution)
        /\ (pc = "done")
           => (/\ result.outcome = "VICTORY"
               /\ result.moves_made = Len(Solution)
               /\ result.remaining_pegs = 1))

\* the scripted game on the 7x7 board has ended in Victory
C18_Witness ==
    /\ pc = "done"
    /\ size = 7
    /\ selected_move = Solution[Len(Solution)]
    /\ result.outcome = "VICTORY"
    /\ board[3][3] = "1"
    /\ count_pegs(board, size) = 1

====
